---- MODULE Spec2Model ----
(***************************************************************************)
(* A model of the Graphs-and-Queues library: the Graph class with its      *)
(* searches (find_shortest_path, Dijkstra, check_cycles) of graph.py and   *)
(* the BinaryHeap priority queue of priorityQueue.py.                      *)
(*                                                                         *)
(* Python lists are sequences; Python index p is position p + 1.  A heap   *)
(* entry (distance, "name") is the tuple <<distance, name>>, so the        *)
(* source's tuple[1] is e[2] here.                                         *)
(***************************************************************************)
EXTENDS Integers, Sequences, FiniteSets, Bags, TLC

VARIABLES vertexList, connections, firstSeen,
          heapList, currentSize,
          pc, call, ret, raised,
          dist, current, nextIdx,
          inserted, popped,
          held, list, maxlen,
          seen, deep

vars == <<vertexList, connections, firstSeen, heapList, currentSize,
          pc, call, ret, raised, dist, current, nextIdx, inserted, popped,
          held, list, maxlen, seen, deep>>

graphVars == <<vertexList, connections, firstSeen>>
heapVars == <<heapList, currentSize>>
dijkstraVars == <<dist, current, nextIdx>>
drainVars == <<inserted, popped>>
callerVars == <<held>>
queueVars == <<list, maxlen>>
searchVars == <<seen, deep>>

(***************************************************************************)
(* Bounds and value sets                                                   *)
(***************************************************************************)
\* most edges a graph of the model holds
MaxConns == 4
\* most entries inserted into a heap that is then drained
MaxHeap == 4
\* most entries a heap under arbitrary operations holds
MaxLive == 3
\* largest priority given to a stand-alone heap
MaxPrio == 2
\* longest list given to buildHeap
MaxBuild == 2
\* largest maxlen a queue of the model is made with
MaxMaxlen == 3
\* most items appended to a queue in all
MaxAppends == 4
\* longest list given to listAppend
MaxListAppend == 2
\* float('inf'): larger than every finite distance, and inf + 1 == inf
Inf == 999

\* vertex labels; "0" is also the label of the heap's index-0 entry
Vertex == {"0", "A", "B"}

\* Python's order on the labels (str.__lt__): "0" < "A" < "B"
Rank(s) == CASE s = "0" -> 0 [] s = "A" -> 1 [] s = "B" -> 2 [] OTHER -> 3

Range(s) == {s[i] : i \in DOMAIN s}

\* Python's None, and a value that is not None
None == [none |-> TRUE, val |-> <<>>]
Just(x) == [none |-> FALSE, val |-> x]

\* truth value of a list-or-None (None and [] are false)
Truthy(r) == ~r.none /\ Len(r.val) > 0

(***************************************************************************)
(* Graph                                                                   *)
(***************************************************************************)
\* the graph object: its two fields
Graph(vl, conns) == [vertexList |-> vl, connections |-> conns]

GraphInit == Graph(<<>>, <<>>)

\* addVertex without its membership test
addVertexNoCheck(g, vertex) ==
    Graph(Append(g.vertexList, vertex),
          [v \in (DOMAIN g.connections) \cup {vertex} |->
              IF v = vertex THEN <<>> ELSE g.connections[v]])

addVertex(g, vertex) ==
    IF vertex \in Range(g.vertexList)
    THEN g
    ELSE Graph(Append(g.vertexList, vertex),
               [v \in (DOMAIN g.connections) \cup {vertex} |->
                   IF v = vertex THEN <<>> ELSE g.connections[v]])

\* addConn that does not add a missing destination to the graph
addConnNoDest(g, v1, v2) ==
    LET g1 == IF v1 \notin Range(g.vertexList) THEN addVertex(g, v1) ELSE g
    IN  IF v2 \in Range(g1.connections[v1])
        THEN g1
        ELSE Graph(g1.vertexList,
                   [g1.connections EXCEPT ![v1] = Append(@, v2)])

\* addConn without its "v2 in self.connections[v1]" test
addConnAlways(g, v1, v2) ==
    LET g1 == IF v1 \notin Range(g.vertexList) THEN addVertex(g, v1) ELSE g
        g2 == IF v2 \notin Range(g1.vertexList) THEN addVertex(g1, v2) ELSE g1
    IN  Graph(g2.vertexList, [g2.connections EXCEPT ![v1] = Append(@, v2)])

addConn(g, v1, v2) ==
    LET g1 == IF v1 \notin Range(g.vertexList) THEN addVertex(g, v1) ELSE g
        g2 == IF v2 \notin Range(g1.vertexList) THEN addVertex(g1, v2) ELSE g1
    IN  IF v2 \in Range(g2.connections[v1])
        THEN g2
        ELSE Graph(g2.vertexList,
                   [g2.connections EXCEPT ![v1] = Append(@, v2)])

hasVert(g, vert) == vert \in Range(g.vertexList)

getConns(g, vert) ==
    IF ~hasVert(g, vert) THEN None ELSE Just(g.connections[vert])

getNodes(g) == g.vertexList

\* the graph held in the variables
G == Graph(vertexList, connections)

NumConns(g) ==
    LET RECURSIVE Sum(_)
        Sum(S) == IF S = {} THEN 0
                  ELSE LET v == CHOOSE x \in S : TRUE
                       IN  Len(g.connections[v]) + Sum(S \ {v})
    IN  Sum(DOMAIN g.connections)

(***************************************************************************)
(* find_shortest_path                                                      *)
(***************************************************************************)
\* [start] + path: the new vertex put in front
ExtendFront(path, start) == <<start>> \o path

\* path + [start]
Extend(path, start) == path \o <<start>>

\* every path found replaces the one kept
ShorterAlways(newpath, shortest) == TRUE

\* a path of the same length replaces the one kept too
ShorterOrEqual(newpath, shortest) ==
    ~Truthy(shortest) \/ Len(newpath.val) <= Len(shortest.val)

\* "not shortest or len(newpath) < len(shortest)"
Shorter(newpath, shortest) ==
    ~Truthy(shortest) \/ Len(newpath.val) < Len(shortest.val)

RECURSIVE find_shortest_path(_, _, _, _)
RECURSIVE fspLoop(_, _, _, _, _, _)

\* the body of "for node in graph.getConns(start)", from position j of the
\* adjacency list conns on, with the running value of shortest
fspLoop(g, conns, j, end, path, shortest) ==
    IF j > Len(conns) THEN shortest
    ELSE LET node == conns[j] IN
         IF node \notin Range(path)
         THEN LET newpath == find_shortest_path(g, node, end, path) IN
              IF Truthy(newpath) /\ Shorter(newpath, shortest)
              THEN fspLoop(g, conns, j + 1, end, path, newpath)
              ELSE fspLoop(g, conns, j + 1, end, path, shortest)
         ELSE fspLoop(g, conns, j + 1, end, path, shortest)

find_shortest_path(g, start, end, path0) ==
    LET path == Extend(path0, start) IN
    IF start = end THEN Just(path)
    ELSE IF ~hasVert(g, start) \/ ~hasVert(g, end) THEN None
    ELSE fspLoop(g, getConns(g, start).val, 1, end, path, None)

\* the call a user makes: path takes its default, the empty list
fspCall(g, start, end) == find_shortest_path(g, start, end, <<>>)

(***************************************************************************)
(* check_cycles                                                            *)
(***************************************************************************)
RECURSIVE visit(_, _, _, _)
RECURSIVE visitLoop(_, _, _, _, _, _)

\* the sets visit mutates travel with its return value
VisitRet(r, visited, path) == [ret |-> r, visited |-> visited, path |-> path]

\* "for neighbour in graph.getConns(vertex)" from position j on
visitLoop(vertex, conns, j, visited, path, g) ==
    IF j > Len(conns)
    THEN VisitRet(FALSE, visited, path \ {vertex})
    ELSE LET neighbour == conns[j] IN
         IF neighbour \in path THEN VisitRet(TRUE, visited, path)
         ELSE LET r == visit(neighbour, visited, path, g) IN
              IF r.ret THEN r
              ELSE visitLoop(vertex, conns, j + 1, r.visited, r.path, g)

visit(vertex, visited, path, g) ==
    IF vertex \in visited THEN VisitRet(FALSE, visited, path)
    ELSE visitLoop(vertex, getConns(g, vertex).val, 1,
                   visited \cup {vertex}, path \cup {vertex}, g)

RECURSIVE anyVisit(_, _, _, _)
\* any(visit(vert, path, visited, graph) for vert in graph), from position
\* j of vertexList on; first and second are the two sets in the order
\* check_cycles passes them
anyVisit(g, j, first, second) ==
    IF j > Len(g.vertexList) THEN FALSE
    ELSE LET r == visit(g.vertexList[j], first, second, g) IN
         IF r.ret THEN TRUE
         ELSE anyVisit(g, j + 1, r.visited, r.path)

\* check_cycles that starts from the first vertex only
check_cyclesFirstOnly(g) ==
    IF Len(g.vertexList) = 0 THEN FALSE
    ELSE visit(g.vertexList[1], {}, {}, g).ret

check_cycles(g) == anyVisit(g, 1, {}, {})

(***************************************************************************)
(* BinaryHeap                                                              *)
(***************************************************************************)
\* the heap object: its two fields
Heap(hl, cs) == [heapList |-> hl, currentSize |-> cs]

\* heapList[i] for a Python index i
At(h, i) == h.heapList[i + 1]

\* the entry __init__ puts at index 0
Sentinel == <<0, "0">>

HeapInit == Heap(<<Sentinel>>, 0)

\* Python's order on (distance, "name") tuples
TupLt(a, b) == a[1] < b[1] \/ (a[1] = b[1] /\ Rank(a[2]) < Rank(b[2]))

\* heapList[i], heapList[j] = heapList[j], heapList[i]
Swap(h, i, j) ==
    Heap([h.heapList EXCEPT ![i + 1] = h.heapList[j + 1],
                            ![j + 1] = h.heapList[i + 1]],
         h.currentSize)

RECURSIVE percUp(_, _)
percUp(h, i) ==
    IF i \div 2 > 0
    THEN IF TupLt(At(h, i), At(h, i \div 2))
         THEN percUp(Swap(h, i \div 2, i), i \div 2)
         ELSE percUp(h, i \div 2)
    ELSE h

\* insert without percUp
insertNoPerc(h, k) == Heap(Append(h.heapList, k), h.currentSize + 1)

insert(h, k) ==
    LET h1 == Heap(Append(h.heapList, k), h.currentSize + 1)
    IN  percUp(h1, h1.currentSize)

minChild(h, i) ==
    IF i * 2 + 1 > h.currentSize THEN i * 2
    ELSE IF TupLt(At(h, i * 2), At(h, i * 2 + 1)) THEN i * 2
         ELSE i * 2 + 1

RECURSIVE percDown(_, _)
percDown(h, i) ==
    IF i * 2 <= h.currentSize
    THEN LET mc == minChild(h, i) IN
         IF TupLt(At(h, mc), At(h, i))
         THEN percDown(Swap(h, i, mc), mc)
         ELSE percDown(h, mc)
    ELSE h

\* what delMin leaves: the heap, the value returned, and whether it raised
DelRet(h, retval, exc) == [heap |-> h, retval |-> retval, raised |-> exc]

\* list.pop(): the list without its last item
Pop(s) == SubSeq(s, 1, Len(s) - 1)

\* delMin that hands out index 0 when there is no index 1
delMinSentinel(h) ==
    IF Len(h.heapList) < 2
    THEN DelRet(Heap(h.heapList, h.currentSize - 1), Just(At(h, 0)), FALSE)
    ELSE LET h1 == Heap(Pop([h.heapList EXCEPT ![2] = At(h, h.currentSize)]),
                        h.currentSize - 1)
         IN  DelRet(percDown(h1, 1), Just(At(h, 1)), FALSE)

\* heapList[1] raises IndexError on a list of length 1, before anything is
\* assigned
delMin(h) ==
    IF Len(h.heapList) < 2
    THEN DelRet(h, None, TRUE)
    ELSE LET h1 == Heap(Pop([h.heapList EXCEPT ![2] = At(h, h.currentSize)]),
                        h.currentSize - 1)
         IN  DelRet(percDown(h1, 1), Just(At(h, 1)), FALSE)

RECURSIVE buildLoop(_, _)
buildLoop(h, i) == IF i > 0 THEN buildLoop(percDown(h, i), i - 1) ELSE h

\* buildHeap that loads the list and sifts nothing down
buildHeapNoLoop(h, alist) == Heap(<<Sentinel>> \o alist, Len(alist))

buildHeap(h, alist) ==
    buildLoop(Heap(<<Sentinel>> \o alist, Len(alist)), Len(alist) \div 2)

isEmpty(h) == h.heapList = <<Sentinel>>

\* del heapList[i] for a Python index i
DelAt(s, i) == SubSeq(s, 1, i) \o SubSeq(s, i + 2, Len(s))

\* the Python indices whose entry has the name
Named(h, name) == {i \in 0 .. Len(h.heapList) - 1 : At(h, i)[2] = name}

Min(S) == CHOOSE x \in S : \A y \in S : x <= y

editHeap(h, name, update) ==
    IF Named(h, name) # {}
    THEN LET i == Min(Named(h, name))
         IN  insert(Heap(DelAt(h.heapList, i), h.currentSize - 1), update)
    ELSE insert(h, update)

display(h, name) ==
    IF Named(h, name) # {}
    THEN Just(At(h, Min(Named(h, name))))
    ELSE None

\* the heap held in the variables
H == Heap(heapList, currentSize)

(***************************************************************************)
(* State machine                                                           *)
(***************************************************************************)
\* what a caller holds of the graph's lists: nothing, the list object
\* connections[key], or the list object vertexList
NoRef == [field |-> "none", key |-> ""]

\* the operation called last and its arguments
Call(op, args) == [op |-> op, args |-> args]

Init ==
    /\ vertexList = GraphInit.vertexList
    /\ connections = GraphInit.connections
    /\ firstSeen = <<>>
    /\ heapList = HeapInit.heapList
    /\ currentSize = HeapInit.currentSize
    /\ pc = "idle"
    /\ call = Call("none", <<>>)
    /\ ret = None
    /\ raised = FALSE
    /\ dist = <<>>
    /\ current = <<>>
    /\ nextIdx = 0
    /\ inserted = <<>>
    /\ popped = <<>>
    /\ held = NoRef
    /\ seen = {}
    /\ deep = 0
    /\ list = <<>>
    /\ maxlen = 1

\* firstSeen records the labels in the order the caller first named them
Seen(fs, v) == IF v \in Range(fs) THEN fs ELSE Append(fs, v)

AddVertex(vertex) ==
    /\ pc = "idle"
    /\ LET g == addVertex(G, vertex) IN
       /\ vertexList' = g.vertexList
       /\ connections' = g.connections
    /\ firstSeen' = Seen(firstSeen, vertex)
    /\ call' = Call("addVertex", <<vertex>>)
    /\ UNCHANGED <<searchVars, callerVars, queueVars, heapVars, pc, ret, raised, dijkstraVars, drainVars>>

AddConn(v1, v2) ==
    /\ pc = "idle"
    /\ NumConns(G) < MaxConns
    /\ LET g == addConn(G, v1, v2) IN
       /\ vertexList' = g.vertexList
       /\ connections' = g.connections
    /\ firstSeen' = Seen(Seen(firstSeen, v1), v2)
    /\ call' = Call("addConn", <<v1, v2>>)
    /\ UNCHANGED <<searchVars, callerVars, queueVars, heapVars, pc, ret, raised, dijkstraVars, drainVars>>

CallFindShortestPath(start, end) ==
    /\ pc = "idle"
    /\ pc' = "returned"
    /\ call' = Call("find_shortest_path", <<start, end>>)
    /\ ret' = fspCall(G, start, end)
    /\ UNCHANGED <<searchVars, callerVars, queueVars, graphVars, heapVars, raised, dijkstraVars, drainVars>>

CallCheckCycles ==
    /\ pc = "idle"
    /\ pc' = "returned"
    /\ call' = Call("check_cycles", <<>>)
    /\ ret' = Just(check_cycles(G))
    /\ UNCHANGED <<searchVars, callerVars, queueVars, graphVars, heapVars, raised, dijkstraVars, drainVars>>

CallGetConns(vert) ==
    /\ pc = "idle"
    /\ pc' = "returned"
    /\ call' = Call("getConns", <<vert>>)
    /\ ret' = getConns(G, vert)
    /\ UNCHANGED <<searchVars, callerVars, queueVars, graphVars, heapVars, raised, dijkstraVars, drainVars>>

NextGraph ==
    \/ \E v \in Vertex : AddVertex(v)
    \/ \E v1, v2 \in Vertex : AddConn(v1, v2)
    \/ \E start, end \in Vertex : CallFindShortestPath(start, end)
    \/ CallCheckCycles
    \/ \E v \in Vertex : CallGetConns(v)

\* a graph under construction, and one call of a search or an accessor on it
SpecGraph == Init /\ [][NextGraph]_vars

(***************************************************************************)
(* Callers that keep what getConns and getNodes return                     *)
(***************************************************************************)
\* the list object connections[vert]
RefConns(vert) == [field |-> "connections", key |-> vert]

\* the list object vertexList
RefNodes == [field |-> "vertexList", key |-> ""]

\* what getConns hands out: "return self.connections[vert]" is the list
\* object the graph holds, not a copy of it; None for a missing vertex
getConnsObj(g, vert) == IF ~hasVert(g, vert) THEN NoRef ELSE RefConns(vert)

\* what getNodes hands out: "return self.vertexList", the list object
getNodesObj(g) == RefNodes

\* the items of the list object a reference names
Deref(g, ref) ==
    IF ref.field = "vertexList" THEN g.vertexList
    ELSE g.connections[ref.key]

\* the graph once the list object a reference names holds the items s
Store(g, ref, s) ==
    IF ref.field = "vertexList" THEN Graph(s, g.connections)
    ELSE Graph(g.vertexList, [g.connections EXCEPT ![ref.key] = s])

\* list.remove(x): the list without the first x
RemoveFirst(s, x) ==
    LET i == CHOOSE k \in DOMAIN s : s[k] = x /\ \A j \in 1 .. k - 1 : s[j] # x
    IN  SubSeq(s, 1, i - 1) \o SubSeq(s, i + 1, Len(s))

\* "conns = graph.getConns(vert)"
KeepConns(vert) ==
    /\ pc = "idle"
    /\ getConnsObj(G, vert) # NoRef
    /\ held' = getConnsObj(G, vert)
    /\ ret' = getConns(G, vert)
    /\ call' = Call("getConns", <<vert>>)
    /\ pc' = "held"
    /\ UNCHANGED <<searchVars, graphVars, heapVars, raised, dijkstraVars, drainVars,
                   queueVars>>

\* "nodes = graph.getNodes()"
KeepNodes ==
    /\ pc = "idle"
    /\ held' = getNodesObj(G)
    /\ ret' = Just(getNodes(G))
    /\ call' = Call("getNodes", <<>>)
    /\ pc' = "held"
    /\ UNCHANGED <<searchVars, graphVars, heapVars, raised, dijkstraVars, drainVars,
                   queueVars>>

\* the caller appends to the list it was given
CallerAppend(x) ==
    /\ pc = "held"
    /\ LET g == Store(G, held, Append(Deref(G, held), x)) IN
       /\ vertexList' = g.vertexList
       /\ connections' = g.connections
    /\ call' = Call("caller append", <<x>>)
    /\ pc' = "mutated"
    /\ UNCHANGED <<searchVars, firstSeen, heapVars, ret, raised, dijkstraVars, drainVars,
                   callerVars, queueVars>>

\* the caller removes an item from the list it was given
CallerRemove(x) ==
    /\ pc = "held"
    /\ x \in Range(Deref(G, held))
    /\ LET g == Store(G, held, RemoveFirst(Deref(G, held), x)) IN
       /\ vertexList' = g.vertexList
       /\ connections' = g.connections
    /\ call' = Call("caller remove", <<x>>)
    /\ pc' = "mutated"
    /\ UNCHANGED <<searchVars, firstSeen, heapVars, ret, raised, dijkstraVars, drainVars,
                   callerVars, queueVars>>

NextAlias ==
    \/ \E v \in Vertex : AddVertex(v)
    \/ \E v1, v2 \in Vertex : AddConn(v1, v2)
    \/ \E v \in Vertex : KeepConns(v)
    \/ KeepNodes
    \/ \E x \in Vertex : CallerAppend(x)
    \/ \E x \in Vertex : CallerRemove(x)

\* a graph under construction, and a caller that changes a list an accessor
\* gave it
SpecAlias == Init /\ [][NextAlias]_vars

(***************************************************************************)
(* Dijkstra                                                                *)
(***************************************************************************)
\* current[0] + 1, where inf + 1 is inf
Plus1(d) == IF d = Inf THEN Inf ELSE d + 1

\* what the first loop gives a node: 0 to the source, inf to the others
InitDist(node, source) == IF node # source THEN Inf ELSE 0

RECURSIVE initPq(_, _, _, _)
\* "for node in graph: ... pq.insert((dist[node], node))" from position j on
initPq(g, source, j, h) ==
    IF j > Len(g.vertexList) THEN h
    ELSE LET node == g.vertexList[j]
         IN  initPq(g, source, j + 1, insert(h, <<InitDist(node, source), node>>))

DijkstraInit(source) ==
    /\ pc = "idle"
    /\ call' = Call("Dijkstra", <<source>>)
    /\ dist' = [node \in Range(vertexList) |-> InitDist(node, source)]
    /\ LET pq == initPq(G, source, 1, HeapInit) IN
       /\ heapList' = pq.heapList
       /\ currentSize' = pq.currentSize
    /\ pc' = "while"
    /\ UNCHANGED <<searchVars, callerVars, queueVars, graphVars, ret, raised, current, nextIdx, drainVars>>

\* "while not pq.isEmpty(): current = pq.delMin()"
DijkstraDelMin ==
    /\ pc = "while"
    /\ ~isEmpty(H)
    /\ LET r == delMin(H) IN
       /\ heapList' = r.heap.heapList
       /\ currentSize' = r.heap.currentSize
       /\ raised' = r.raised
       /\ current' = IF r.raised THEN current ELSE r.retval.val
       /\ pc' = IF r.raised THEN "raised" ELSE "for"
    /\ nextIdx' = 1
    /\ UNCHANGED <<searchVars, callerVars, queueVars, graphVars, call, ret, dist, drainVars>>

\* one pass of "for next_node in graph.getConns(current[1])"
DijkstraRelax ==
    /\ pc = "for"
    /\ LET conns == getConns(G, current[2]) IN
       /\ ~conns.none
       /\ nextIdx <= Len(conns.val)
       /\ LET next_node == conns.val[nextIdx]
              new_dist == Plus1(current[1])
          IN  IF next_node \notin DOMAIN dist
              THEN /\ raised' = TRUE
                   /\ pc' = "raised"
                   /\ UNCHANGED <<heapVars, dist, nextIdx>>
              ELSE /\ IF new_dist < dist[next_node]
                      THEN /\ dist' = [dist EXCEPT ![next_node] = new_dist]
                           /\ LET pq == editHeap(H, next_node,
                                                 <<new_dist, next_node>>)
                              IN  /\ heapList' = pq.heapList
                                  /\ currentSize' = pq.currentSize
                      ELSE UNCHANGED <<heapVars, dist>>
                   /\ nextIdx' = nextIdx + 1
                   /\ UNCHANGED <<pc, raised>>
    /\ UNCHANGED <<searchVars, callerVars, queueVars, graphVars, call, ret, current, drainVars>>

\* the for loop is exhausted: back to the while test
DijkstraForEnd ==
    /\ pc = "for"
    /\ LET conns == getConns(G, current[2]) IN
       IF conns.none
       THEN /\ raised' = TRUE
            /\ pc' = "raised"
       ELSE /\ nextIdx > Len(conns.val)
            /\ pc' = "while"
            /\ UNCHANGED raised
    /\ UNCHANGED <<searchVars, callerVars, queueVars, graphVars, heapVars, call, ret, dist, current, nextIdx,
                   drainVars>>

\* the while test fails: "return dist"
DijkstraReturn ==
    /\ pc = "while"
    /\ isEmpty(H)
    /\ pc' = "done"
    /\ ret' = Just(dist)
    /\ UNCHANGED <<searchVars, callerVars, queueVars, graphVars, heapVars, call, raised, dijkstraVars, drainVars>>

NextDijkstra ==
    \/ \E v \in Vertex : AddVertex(v)
    \/ \E v1, v2 \in Vertex : AddConn(v1, v2)
    \/ \E source \in Vertex : DijkstraInit(source)
    \/ DijkstraDelMin
    \/ DijkstraRelax
    \/ DijkstraForEnd
    \/ DijkstraReturn

\* a graph under construction, and one run of Dijkstra on it
SpecDijkstra == Init /\ [][NextDijkstra]_vars

(***************************************************************************)
(* BinaryHeap used on its own                                              *)
(***************************************************************************)
\* the entries given to a stand-alone heap
Entry == (0 .. MaxPrio) \X Vertex

\* the lists given to buildHeap
BuildLists == UNION {[1 .. n -> Entry] : n \in 0 .. MaxBuild}

HeapInsert(k) ==
    /\ currentSize < MaxLive
    /\ LET h == insert(H, k) IN
       /\ heapList' = h.heapList
       /\ currentSize' = h.currentSize
    /\ call' = Call("insert", <<k>>)
    /\ ret' = None
    /\ raised' = FALSE
    /\ UNCHANGED <<searchVars, callerVars, queueVars, graphVars, pc, dijkstraVars, drainVars>>

HeapDelMin ==
    /\ LET r == delMin(H) IN
       /\ heapList' = r.heap.heapList
       /\ currentSize' = r.heap.currentSize
       /\ ret' = r.retval
       /\ raised' = r.raised
    /\ call' = Call("delMin", <<>>)
    /\ UNCHANGED <<searchVars, callerVars, queueVars, graphVars, pc, dijkstraVars, drainVars>>

HeapEditHeap(name, update) ==
    /\ currentSize < MaxLive \/ Named(H, name) # {}
    /\ LET h == editHeap(H, name, update) IN
       /\ heapList' = h.heapList
       /\ currentSize' = h.currentSize
    /\ call' = Call("editHeap", <<name, update>>)
    /\ ret' = None
    /\ raised' = FALSE
    /\ UNCHANGED <<searchVars, callerVars, queueVars, graphVars, pc, dijkstraVars, drainVars>>

HeapBuildHeap(alist) ==
    /\ LET h == buildHeap(H, alist) IN
       /\ heapList' = h.heapList
       /\ currentSize' = h.currentSize
    /\ call' = Call("buildHeap", <<alist>>)
    /\ ret' = None
    /\ raised' = FALSE
    /\ UNCHANGED <<searchVars, callerVars, queueVars, graphVars, pc, dijkstraVars, drainVars>>

NextHeap ==
    \/ \E k \in Entry : HeapInsert(k)
    \/ HeapDelMin
    \/ \E name \in Vertex, update \in Entry : HeapEditHeap(name, update)
    \/ \E alist \in BuildLists : HeapBuildHeap(alist)

\* a heap under any sequence of its operations
SpecHeap == Init /\ [][NextHeap]_vars

\* "pq.insert(k)" on a fresh heap, any number of times
DrainInsert(k) ==
    /\ pc = "idle"
    /\ currentSize < MaxHeap
    /\ LET h == insert(H, k) IN
       /\ heapList' = h.heapList
       /\ currentSize' = h.currentSize
    /\ inserted' = inserted (+) SetToBag({k})
    /\ call' = Call("insert", <<k>>)
    /\ UNCHANGED <<searchVars, callerVars, queueVars, graphVars, pc, ret, raised, dijkstraVars, popped>>

\* "while not pq.isEmpty(): pq.delMin()", one pass
DrainDelMin ==
    /\ pc \in {"idle", "drain"}
    /\ ~isEmpty(H)
    /\ LET r == delMin(H) IN
       /\ heapList' = r.heap.heapList
       /\ currentSize' = r.heap.currentSize
       /\ ret' = r.retval
       /\ raised' = r.raised
       /\ popped' = IF r.raised THEN popped ELSE Append(popped, r.retval.val)
       /\ pc' = IF r.raised THEN "raised" ELSE "drain"
    /\ call' = Call("delMin", <<>>)
    /\ UNCHANGED <<searchVars, callerVars, queueVars, graphVars, dijkstraVars, inserted>>

\* the loop ends: isEmpty() is true
DrainDone ==
    /\ pc \in {"idle", "drain"}
    /\ isEmpty(H)
    /\ pc' = "done"
    /\ UNCHANGED <<searchVars, callerVars, queueVars, graphVars, heapVars, call, ret, raised, dijkstraVars,
                   drainVars>>

\* delMin called on a heap with no live entry, fresh or drained
DelMinOnEmpty ==
    /\ pc \in {"idle", "done"}
    /\ currentSize = 0
    /\ LET r == delMin(H) IN
       /\ heapList' = r.heap.heapList
       /\ currentSize' = r.heap.currentSize
       /\ ret' = r.retval
       /\ raised' = r.raised
    /\ call' = Call("delMin", <<>>)
    /\ pc' = "called_empty"
    /\ UNCHANGED <<searchVars, callerVars, queueVars, graphVars, dijkstraVars, drainVars>>

NextDrain ==
    \/ \E k \in Entry : DrainInsert(k)
    \/ DrainDelMin
    \/ DrainDone
    \/ DelMinOnEmpty

\* inserts into a fresh heap, then delMin until the heap is empty
SpecDrain == Init /\ [][NextDrain]_vars

(***************************************************************************)
(* SimpleQueue                                                             *)
(***************************************************************************)
\* the items put into a queue
Item == 0 .. 1

\* the lists given to listAppend
AppendLists == UNION {[1 .. n -> Item] : n \in 0 .. MaxListAppend}

\* the queue object: its two fields
SimpleQueue(ml, l) == [maxlen |-> ml, list |-> l]

\* append that drops the item just appended, not the oldest
sqAppendDropNewest(q, item) ==
    LET l == Append(q.list, item)
    IN  SimpleQueue(q.maxlen, IF Len(l) > q.maxlen THEN Pop(l) ELSE l)

\* "self.list.append(item)", then "self.list.pop(0)" if the list is too long
sqAppend(q, item) ==
    LET l == Append(q.list, item)
    IN  SimpleQueue(q.maxlen, IF Len(l) > q.maxlen THEN Tail(l) ELSE l)

\* what a queue method leaves: the queue, the value returned, and whether
\* it raised
SqRet(q, retval, exc) == [queue |-> q, retval |-> retval, raised |-> exc]

\* "return self.list.pop(0)": IndexError on an empty list
sqDequeue(q) ==
    IF Len(q.list) = 0 THEN SqRet(q, None, TRUE)
    ELSE SqRet(SimpleQueue(q.maxlen, Tail(q.list)), Just(Head(q.list)), FALSE)

RECURSIVE sqAppendAll(_, _, _)
\* "for item in alist: self.append(item)" from position j on
sqAppendAll(q, alist, j) ==
    IF j > Len(alist) THEN q
    ELSE sqAppendAll(sqAppend(q, alist[j]), alist, j + 1)

\* ValueError when the items do not all fit
sqListAppend(q, alist) ==
    IF Len(alist) + Len(q.list) <= q.maxlen
    THEN SqRet(sqAppendAll(q, alist, 1), None, FALSE)
    ELSE SqRet(q, None, TRUE)

\* the queue held in the variables
Q == SimpleQueue(maxlen, list)

\* SimpleQueue(maxlen) for a maxlen of 1 or more
InitQueue ==
    /\ vertexList = GraphInit.vertexList
    /\ connections = GraphInit.connections
    /\ firstSeen = <<>>
    /\ heapList = HeapInit.heapList
    /\ currentSize = HeapInit.currentSize
    /\ pc = "idle"
    /\ call = Call("none", <<>>)
    /\ ret = None
    /\ raised = FALSE
    /\ dist = <<>>
    /\ current = <<>>
    /\ nextIdx = 0
    /\ inserted = <<>>
    /\ popped = <<>>
    /\ held = NoRef
    /\ seen = {}
    /\ deep = 0
    /\ list = <<>>
    /\ maxlen \in 1 .. MaxMaxlen

\* inserted keeps every item ever appended, in order (a history variable);
\* popped keeps what dequeue returned
QueueAppend(item) ==
    /\ Len(inserted) < MaxAppends
    /\ list' = sqAppend(Q, item).list
    /\ inserted' = Append(inserted, item)
    /\ call' = Call("append", <<item>>)
    /\ ret' = None
    /\ raised' = FALSE
    /\ UNCHANGED <<searchVars, graphVars, heapVars, pc, dijkstraVars, popped, callerVars,
                   maxlen>>

QueueDequeue ==
    /\ LET r == sqDequeue(Q) IN
       /\ list' = r.queue.list
       /\ ret' = r.retval
       /\ raised' = r.raised
       /\ popped' = IF r.raised THEN popped ELSE Append(popped, r.retval.val)
    /\ call' = Call("dequeue", <<>>)
    /\ UNCHANGED <<searchVars, graphVars, heapVars, pc, dijkstraVars, inserted, callerVars,
                   maxlen>>

QueueListAppend(alist) ==
    /\ Len(inserted) + Len(alist) <= MaxAppends
    /\ LET r == sqListAppend(Q, alist) IN
       /\ list' = r.queue.list
       /\ ret' = r.retval
       /\ raised' = r.raised
       /\ inserted' = IF r.raised THEN inserted ELSE inserted \o alist
    /\ call' = Call("listAppend", <<alist>>)
    /\ UNCHANGED <<searchVars, graphVars, heapVars, pc, dijkstraVars, popped, callerVars,
                   maxlen>>

NextQueue ==
    \/ \E item \in Item : QueueAppend(item)
    \/ QueueDequeue
    \/ \E alist \in AppendLists : QueueListAppend(alist)

\* a queue under any sequence of its operations
SpecQueue == InitQueue /\ [][NextQueue]_vars

(***************************************************************************)
(* Reference notions the claims are stated with                            *)
(***************************************************************************)
\* the vertices one edge away from a vertex of S
Succ(g, S) ==
    {w \in Vertex : \E v \in S \cap DOMAIN g.connections :
                        w \in Range(g.connections[v])}

RECURSIVE HopsFrom(_, _, _, _)
HopsFrom(g, reached, t, k) ==
    IF t \in reached THEN k
    ELSE LET more == reached \cup Succ(g, reached)
         IN  IF more = reached THEN -1 ELSE HopsFrom(g, more, t, k + 1)

\* the least number of edges of a directed path from s to t; -1 if there
\* is none
Hops(g, s, t) == HopsFrom(g, {s}, t, 0)

\* a directed cycle exists: some vertex reaches itself by one edge or more
HasCycle(g) ==
    \E v \in Range(g.vertexList) :
        \E w \in Succ(g, {v}) : Hops(g, w, v) # -1

NoDup(s) == \A i, j \in DOMAIN s : s[i] = s[j] => i = j

(***************************************************************************)
(* Claims                                                                  *)
(***************************************************************************)
\* C1: for every graph and every source s of the graph, Dijkstra returns a
\* mapping over exactly the vertices of the graph, with 0 for s, the least
\* number of edges of a path from s for every reachable vertex (the length
\* of find_shortest_path's result less one), and infinity for the others;
\* whatever the vertex labels are.
C1_DijkstraDistances ==
    (call.op = "Dijkstra" /\ hasVert(G, call.args[1])) =>
        LET s == call.args[1] IN
        /\ pc # "raised"
        /\ pc = "done" =>
             /\ ~ret.none
             /\ DOMAIN ret.val = Range(vertexList)
             /\ ret.val[s] = 0
             /\ \A v \in Range(vertexList) :
                   IF Hops(G, s, v) = -1
                   THEN ret.val[v] = Inf
                   ELSE /\ ret.val[v] = Hops(G, s, v)
                        /\ ret.val[v] = Len(fspCall(G, s, v).val) - 1

\* the call of find_shortest_path whose result is in ret
FspCalled == pc = "returned" /\ call.op = "find_shortest_path"

\* C2: for start and end both in the graph, find_shortest_path returns None
\* exactly when no directed path leads from start to end, and otherwise a
\* path with the least number of vertices any such path has.
C2_ShortestPathMinimal ==
    (FspCalled /\ hasVert(G, call.args[1]) /\ hasVert(G, call.args[2])) =>
        LET h == Hops(G, call.args[1], call.args[2]) IN
        /\ ret.none <=> h = -1
        /\ ~ret.none => Len(ret.val) = h + 1

\* a call where the first neighbour of start leads to end in one more
\* edge, and the direct edge found later replaced that longer path
C2_Witness ==
    /\ FspCalled
    /\ hasVert(G, call.args[1])
    /\ ~ret.none
    /\ Len(ret.val) = 2
    /\ Len(connections[call.args[1]]) >= 2
    /\ connections[call.args[1]][1] # call.args[2]
    /\ Hops(G, connections[call.args[1]][1], call.args[2]) = 1

\* C3: a path P returned by find_shortest_path(G, u, v) starts with u, ends
\* with v, follows an edge of G at every step and holds no vertex twice.
C3_PathWellFormed ==
    (FspCalled /\ ~ret.none) =>
        LET P == ret.val IN
        /\ Len(P) >= 1
        /\ P[1] = call.args[1]
        /\ P[Len(P)] = call.args[2]
        /\ \A i \in 1 .. Len(P) - 1 :
              /\ P[i] \in DOMAIN connections
              /\ P[i + 1] \in Range(connections[P[i]])
        /\ NoDup(P)

\* a returned path of three vertices in a graph that has a cycle
C3_Witness == FspCalled /\ ~ret.none /\ Len(ret.val) = 3 /\ HasCycle(G)

\* C4: check_cycles returns True if and only if the graph has a directed
\* cycle, self-loops and several components included.
C4_CheckCycles ==
    (pc = "returned" /\ call.op = "check_cycles") =>
        (ret.val <=> HasCycle(G))

\* a cycle found in a component the first vertex does not lead to
C4_Witness ==
    /\ pc = "returned"
    /\ call.op = "check_cycles"
    /\ ret.val = TRUE
    /\ Len(vertexList) = 3
    /\ connections[vertexList[1]] = <<>>

\* C8: when start or end is not a vertex of the graph (start and end equal
\* or not), find_shortest_path returns None; and getConns returns None for
\* a vertex not in the graph, and a list, maybe empty, for a vertex in it.
C8_AbsentVertexGivesNone ==
    /\ (FspCalled /\ (~hasVert(G, call.args[1]) \/ ~hasVert(G, call.args[2])))
          => ret = None
    /\ (pc = "returned" /\ call.op = "getConns") =>
          (ret.none <=> ~hasVert(G, call.args[1]))

\* C10: vertexList holds no label twice, the keys of connections are the
\* labels of vertexList, and vertexList lists the labels in the order they
\* were first inserted.
C10_GraphInvariant ==
    /\ NoDup(vertexList)
    /\ DOMAIN connections = Range(vertexList)
    /\ vertexList = firstSeen

\* addVertex was just called with a label the graph already held
C10_Witness ==
    /\ call.op = "addVertex"
    /\ Len(vertexList) >= 2
    /\ vertexList[Len(vertexList)] # call.args[1]
    /\ connections[call.args[1]] # <<>>

\* the Python indices of the live entries with the name
Live(h, name) == {i \in 1 .. h.currentSize : At(h, i)[2] = name}

\* the live entries with another name, each with the number of times it
\* occurs
Others(h, name) ==
    LET idx == {i \in 1 .. h.currentSize : At(h, i)[2] # name}
    IN  [e \in {At(h, i) : i \in idx} |->
            Cardinality({i \in idx : At(h, i) = e})]

\* C5: after any sequence of insert, delMin, editHeap and buildHeap, the
\* entry at the parent index i // 2 has a priority no greater than that of
\* the entry at index i, for every i from 2 to currentSize.
C5_HeapOrder ==
    \A i \in 2 .. currentSize : At(H, i \div 2)[1] <= At(H, i)[1]

\* the priorities delMin returned so far never decrease
NonDecreasing(s) == \A i \in 1 .. Len(s) - 1 : s[i][1] <= s[i + 1][1]

\* the entries of a sequence, each with the number of times it occurs
BagOfSeq(s) ==
    [e \in Range(s) |-> Cardinality({i \in DOMAIN s : s[i] = e})]

\* C6: inserts into a fresh heap followed by delMin until isEmpty(): the
\* priorities come out in non-decreasing order, and what comes out is
\* exactly what went in, each entry as many times as it was inserted.
C6_DrainSorted ==
    /\ NonDecreasing(popped)
    /\ pc # "raised"
    /\ pc = "done" => BagOfSeq(popped) = inserted

\* a drained heap that gave out four entries of three priorities, one
\* entry twice
C6_Witness ==
    /\ pc = "done"
    /\ Len(popped) = 4
    /\ popped[1][1] < popped[2][1]
    /\ popped[2] = popped[3]
    /\ popped[3][1] < popped[4][1]

\* C7: on a heap holding exactly one entry with key k, whatever k is,
\* editHeap(k, (p, k)) leaves display(k) == (p, k), exactly one entry with
\* key k, as many live entries as before and every entry with another key.
C7_EditReplaces ==
    [][(/\ call'.op = "editHeap"
        /\ call'.args[2][2] = call'.args[1]
        /\ Cardinality(Live(H, call'.args[1])) = 1)
       => LET k == call'.args[1]
              after == Heap(heapList', currentSize')
          IN  /\ display(after, k) = Just(call'.args[2])
              /\ Cardinality(Live(after, k)) = 1
              /\ currentSize' = currentSize
              /\ Others(after, k) = Others(H, k)]_vars

\* C9: delMin on a heap with no live entry raises, returns nothing, and
\* leaves heapList and currentSize as they were.
C9_DelMinEmptyRaises ==
    [][pc' = "called_empty"
       => /\ raised'
          /\ ret' = None
          /\ heapList' = heapList
          /\ currentSize' = currentSize]_vars

\* delMin was called on a heap that four delMin calls had drained
C9_Witness ==
    /\ pc = "called_empty"
    /\ raised
    /\ Len(popped) = 4
    /\ heapList = <<Sentinel>>


\* the adjacency list of v, empty for a vertex the graph does not hold yet
OldConns(v) == IF v \in DOMAIN connections THEN connections[v] ELSE <<>>

\* s with x put at its end unless s holds x
AppendNew(s, x) == IF x \in Range(s) THEN s ELSE Append(s, x)

\* C11: addConn(v1, v2) puts a missing endpoint at the end of vertexList,
\* v1 before v2, then v2 at the end of v1's adjacency list unless it is
\* there already; every other adjacency list and the order of what was
\* there stay as they were; a second addConn(v1, v2) changes nothing;
\* v1 == v2 is accepted.
C11_AddConnEffect ==
    [][call'.op = "addConn"
       => LET v1 == call'.args[1]
              v2 == call'.args[2]
          IN  /\ vertexList' = AppendNew(AppendNew(vertexList, v1), v2)
              /\ DOMAIN connections' = (DOMAIN connections) \cup {v1, v2}
              /\ connections'[v1] = AppendNew(OldConns(v1), v2)
              /\ \A v \in (DOMAIN connections') \ {v1} :
                    connections'[v] = OldConns(v)
              /\ call = call' =>
                    /\ vertexList' = vertexList
                    /\ connections' = connections]_vars

\* addConn has just added both of its endpoints and the edge to a graph
\* that held another vertex with an edge of its own
C11_Witness ==
    /\ call.op = "addConn"
    /\ call.args[1] # call.args[2]
    /\ Len(vertexList) = 3
    /\ vertexList[2] = call.args[1]
    /\ vertexList[3] = call.args[2]
    /\ connections[call.args[1]] = <<call.args[2]>>
    /\ connections[vertexList[1]] = <<vertexList[1]>>

\* C12: the sequences getConns and getNodes return are not the graph's own
\* lists: a caller that appends to one or removes from one leaves
\* vertexList and connections as they were.
C12_AccessorsDoNotAlias ==
    [][pc' = "mutated"
       => /\ vertexList' = vertexList
          /\ connections' = connections]_vars

\* the last n items of s
Suffix(s, n) == SubSeq(s, Len(s) - n + 1, Len(s))

MinOf(a, b) == IF a <= b THEN a ELSE b

\* C13: a SimpleQueue with maxlen >= 1 never holds more than maxlen items;
\* an append to a full queue drops exactly the oldest item, so that after n
\* appends to a fresh queue it holds the last min(n, maxlen) items appended,
\* in append order; and dequeue on a non-empty queue returns and removes the
\* oldest item the queue holds.
C13_QueueWindow ==
    [][/\ Len(list') <= maxlen'
       /\ list' = Suffix(inserted', Len(list'))
       /\ popped' = <<>> =>
             Len(list') = MinOf(Len(inserted'), maxlen')
       /\ (call'.op = "append" /\ Len(list) = maxlen) =>
             list' = Append(Tail(list), call'.args[1])
       /\ (call'.op = "dequeue" /\ Len(list) > 0) =>
             /\ ret' = Just(Head(list))
             /\ list' = Tail(list)
             /\ ~raised']_vars

\* a queue of maxlen 2 after four appends, the second of which overflowed
\* no more than the third, and one dequeue: the third item came out
C13_Witness ==
    /\ maxlen = 2
    /\ inserted = <<0, 0, 1, 0>>
    /\ call.op = "dequeue"
    /\ popped = <<1>>
    /\ list = <<0>>

\* a step of the run of Dijkstra can be taken
DijkstraCanStep ==
    ENABLED (DijkstraDelMin \/ DijkstraRelax \/ DijkstraForEnd
             \/ DijkstraReturn)

\* C14: on every graph, with whatever labels, and for every source, the
\* loop of Dijkstra runs until the queue is empty and returns; delMin is
\* only called on a queue with a live entry, and no run ends in an error
\* raised by delMin.
C14_RunsToReturn ==
    call.op = "Dijkstra" =>
        /\ pc # "raised"
        /\ pc = "while" /\ ~isEmpty(H) => currentSize >= 1
        /\ pc = "done" \/ DijkstraCanStep

\* C15: in every state of a run of Dijkstra the queue holds at most one
\* live entry for a vertex, and every live entry (d, v) has d == dist[v].
C15_OneFreshEntryPerVertex ==
    (call.op = "Dijkstra" /\ pc \in {"while", "for", "done"}) =>
        /\ \A v \in Vertex : Cardinality(Live(H, v)) <= 1
        /\ \A i \in 1 .. currentSize :
              /\ At(H, i)[2] \in DOMAIN dist
              /\ At(H, i)[1] = dist[At(H, i)[2]]

\* C16: after any sequence of insert, delMin, editHeap (with any key,
\* "0" included) and buildHeap, heapList[0] is still the sentinel (0, "0"),
\* len(heapList) == currentSize + 1, currentSize >= 0, and isEmpty() is
\* true exactly when the heap has no live entry.
C16_SentinelKept ==
    /\ At(H, 0) = Sentinel
    /\ Len(heapList) = currentSize + 1
    /\ currentSize >= 0
    /\ isEmpty(H) <=> currentSize = 0

(***************************************************************************)
(* item in heap                                                            *)
(***************************************************************************)

\* the items asked for: a name or a number, tagged with its Python type
StrItem(s) == <<"str", s>>
IntItem(n) == <<"int", n>>
Items == {StrItem(s) : s \in Vertex} \cup {IntItem(n) : n \in 0 .. MaxPrio}

\* "item in tuple" for a tuple (priority, name): the priority is an int and
\* the name a str, and an int never equals a str
InTuple(item, tuple) ==
    IF item[1] = "int" THEN tuple[1] = item[2] ELSE tuple[2] = item[2]

\* BinaryHeap.__contains__
contains(h, item) ==
    \E i \in 0 .. Len(h.heapList) - 1 : InTuple(item, At(h, i))

HeapContains(item) ==
    /\ call' = Call("contains", <<item>>)
    /\ ret' = Just(contains(H, item))
    /\ raised' = FALSE
    /\ UNCHANGED <<searchVars, callerVars, queueVars, graphVars, heapVars, pc,
                   dijkstraVars, drainVars>>

NextContains ==
    \/ \E k \in Entry : HeapInsert(k)
    \/ HeapDelMin
    \/ \E item \in Items : HeapContains(item)

\* a heap under insert and delMin, asked for items
SpecContains == Init /\ [][NextContains]_vars

\* C17: "x in heap" is true exactly when some live entry (index >= 1) has
\* the key x; it is false for every x on an empty heap, and it is not made
\* true by x being a priority or a field of the sentinel.
C17_ContainsLiveKey ==
    call.op = "contains" =>
        LET item == call.args[1] IN
        ret.val = (/\ item[1] = "str"
                   /\ \E i \in 1 .. currentSize : At(H, i)[2] = item[2])

(***************************************************************************)
(* find_shortest_path on graphs with several shortest paths                *)
(***************************************************************************)
\* a fourth label: two different paths of three vertices need four vertices
TieVertex == Vertex \cup {"C"}

\* the edges join different vertices: a self-loop is on no simple path
NextTie ==
    \/ \E v1, v2 \in TieVertex : v1 # v2 /\ AddConn(v1, v2)
    \/ \E start, end \in TieVertex : CallFindShortestPath(start, end)

\* a graph built by addConn over four labels, and one search on it
SpecTie == Init /\ [][NextTie]_vars

RECURSIVE PathsFrom(_, _, _, _)
RECURSIVE PathsLoop(_, _, _, _, _)

\* the simple paths that lead from path0 through node to end, in the order
\* a depth-first enumeration finds them when it takes the neighbours of a
\* vertex in adjacency order
PathsFrom(g, node, end, path0) ==
    LET path == path0 \o <<node>> IN
    IF node = end THEN <<path>>
    ELSE PathsLoop(g, g.connections[node], 1, end, path)

PathsLoop(g, conns, j, end, path) ==
    IF j > Len(conns) THEN <<>>
    ELSE (IF conns[j] \in Range(path) THEN <<>>
          ELSE PathsFrom(g, conns[j], end, path))
         \o PathsLoop(g, conns, j + 1, end, path)

\* the positions of the paths with the fewest vertices
Minimal(paths) ==
    {i \in DOMAIN paths : \A k \in DOMAIN paths : Len(paths[i]) <= Len(paths[k])}

\* the first of the paths with the fewest vertices
FirstMinimal(paths) ==
    paths[CHOOSE i \in Minimal(paths) : \A k \in Minimal(paths) : i <= k]

\* C18: when several simple paths from start to end have the minimum
\* number of vertices, find_shortest_path returns the one the depth-first
\* enumeration in adjacency order finds first; a later path of the same
\* length never replaces it.
C18_FirstMinimalWins ==
    (/\ call.op = "find_shortest_path"
     /\ hasVert(G, call.args[1])
     /\ hasVert(G, call.args[2])) =>
        LET paths == PathsFrom(G, call.args[1], call.args[2], <<>>) IN
        ret = IF paths = <<>> THEN None ELSE Just(FirstMinimal(paths))

C18_Witness ==
    /\ call.op = "find_shortest_path"
    /\ hasVert(G, call.args[1])
    /\ hasVert(G, call.args[2])
    /\ LET paths == PathsFrom(G, call.args[1], call.args[2], <<>>) IN
       /\ Cardinality(Minimal(paths)) >= 2
       /\ Len(FirstMinimal(paths)) = 3
       /\ ret = Just(FirstMinimal(paths))

(***************************************************************************)
(* The searches with their recursion depth                                 *)
(***************************************************************************)
\* the interpreter's recursion limit (sys.getrecursionlimit()), scaled
\* down: a call deeper than this raises RecursionError
RecursionLimit == 5

MaxOf(a, b) == IF a >= b THEN a ELSE b

\* the test that leaves every neighbour out: nothing is ever on the path
OnPathNever(node, path) == FALSE

\* "node in path" of "if node not in path"
OnPath(node, path) == node \in Range(path)

\* what a call of find_shortest_path gives, with the values of path its
\* calls held and the depth of the deepest call
FspTrace(val, r, paths, d) ==
    [val |-> val, raised |-> r, seen |-> paths, deep |-> d]

RECURSIVE fspDeep(_, _, _, _, _)
RECURSIVE fspDeepLoop(_, _, _, _, _, _, _)

\* the for loop of find_shortest_path from position j on; acc holds the
\* running value of shortest and what the calls so far have recorded
fspDeepLoop(g, conns, j, end, path, depth, acc) ==
    IF j > Len(conns) THEN acc
    ELSE LET node == conns[j] IN
         IF OnPath(node, path)
         THEN fspDeepLoop(g, conns, j + 1, end, path, depth, acc)
         ELSE LET r == fspDeep(g, node, end, path, depth + 1)
                  shortest == IF Truthy(r.val) /\ Shorter(r.val, acc.val)
                              THEN r.val ELSE acc.val
                  both == FspTrace(shortest, r.raised,
                                   acc.seen \cup r.seen,
                                   MaxOf(acc.deep, r.deep))
              IN  IF r.raised THEN both
                  ELSE fspDeepLoop(g, conns, j + 1, end, path, depth, both)

\* find_shortest_path called at the given recursion depth
fspDeep(g, start, end, path0, depth) ==
    IF depth > RecursionLimit THEN FspTrace(None, TRUE, {}, depth)
    ELSE LET path == Extend(path0, start) IN
         IF start = end THEN FspTrace(Just(path), FALSE, {path}, depth)
         ELSE IF ~hasVert(g, start) \/ ~hasVert(g, end)
              THEN FspTrace(None, FALSE, {path}, depth)
              ELSE fspDeepLoop(g, getConns(g, start).val, 1, end, path,
                               depth, FspTrace(None, FALSE, {path}, depth))

\* what a call of visit gives: its return value, the two sets it has
\* mutated and the depth of the deepest call
VisitTrace(r, visited, path, ra, d) ==
    [ret |-> r, visited |-> visited, path |-> path, raised |-> ra,
     deep |-> d]

RECURSIVE visitDeep(_, _, _, _, _)
RECURSIVE visitDeepLoop(_, _, _, _, _, _, _, _)

\* the for loop of visit from position j on; d is the deepest call so far
visitDeepLoop(vertex, conns, j, visited, path, g, depth, d) ==
    IF j > Len(conns)
    THEN VisitTrace(FALSE, visited, path \ {vertex}, FALSE, d)
    ELSE LET neighbour == conns[j] IN
         IF neighbour \in path
         THEN VisitTrace(TRUE, visited, path, FALSE, d)
         ELSE LET r == visitDeep(neighbour, visited, path, g, depth + 1) IN
              IF r.ret \/ r.raised
              THEN VisitTrace(r.ret, r.visited, r.path, r.raised,
                              MaxOf(d, r.deep))
              ELSE visitDeepLoop(vertex, conns, j + 1, r.visited, r.path,
                                 g, depth, MaxOf(d, r.deep))

\* visit called at the given recursion depth
visitDeep(vertex, visited, path, g, depth) ==
    IF depth > RecursionLimit
    THEN VisitTrace(FALSE, visited, path, TRUE, depth)
    ELSE IF vertex \in visited
         THEN VisitTrace(FALSE, visited, path, FALSE, depth)
         ELSE visitDeepLoop(vertex, getConns(g, vertex).val, 1,
                            visited \cup {vertex}, path \cup {vertex}, g,
                            depth, depth)

RECURSIVE anyVisitDeep(_, _, _, _, _)
\* any(visit(vert, path, visited, graph) for vert in graph) from position
\* j of vertexList on; d is the deepest call so far
anyVisitDeep(g, j, first, second, d) ==
    IF j > Len(g.vertexList)
    THEN VisitTrace(FALSE, first, second, FALSE, d)
    ELSE LET r == visitDeep(g.vertexList[j], first, second, g, 1) IN
         IF r.ret \/ r.raised
         THEN VisitTrace(r.ret, r.visited, r.path, r.raised,
                         MaxOf(d, r.deep))
         ELSE anyVisitDeep(g, j + 1, r.visited, r.path, MaxOf(d, r.deep))

check_cyclesDeep(g) == anyVisitDeep(g, 1, {}, {}, 0)

DeepFindShortestPath(start, end) ==
    /\ pc = "idle"
    /\ pc' = "returned"
    /\ call' = Call("find_shortest_path", <<start, end>>)
    /\ LET r == fspDeep(G, start, end, <<>>, 1) IN
       /\ ret' = r.val
       /\ raised' = r.raised
       /\ seen' = r.seen
       /\ deep' = r.deep
    /\ UNCHANGED <<callerVars, queueVars, graphVars, heapVars,
                   dijkstraVars, drainVars>>

DeepCheckCycles ==
    /\ pc = "idle"
    /\ pc' = "returned"
    /\ call' = Call("check_cycles", <<>>)
    /\ LET r == check_cyclesDeep(G) IN
       /\ ret' = Just(r.ret)
       /\ raised' = r.raised
       /\ deep' = r.deep
    /\ UNCHANGED <<callerVars, queueVars, graphVars, heapVars,
                   dijkstraVars, drainVars, seen>>

NextDeep ==
    \/ \E v \in Vertex : AddVertex(v)
    \/ \E v1, v2 \in Vertex : AddConn(v1, v2)
    \/ \E start, end \in Vertex : DeepFindShortestPath(start, end)
    \/ DeepCheckCycles

\* a graph under construction, and one search on it with its depth recorded
SpecDeep == Init /\ [][NextDeep]_vars

\* C19: find_shortest_path and check_cycles end on every graph, cycles
\* and self-loops included: no call exceeds the recursion limit, the path
\* find_shortest_path accumulates never holds a vertex twice, and in both
\* searches the recursion depth is at most the number of vertices of the
\* graph (for find_shortest_path, when start is in the graph).
C19_SearchesEnd ==
    /\ (call.op = "find_shortest_path" /\ hasVert(G, call.args[1])) =>
          /\ ~raised
          /\ \A path \in seen : NoDup(path)
          /\ deep <= Len(vertexList)
          /\ ret = fspCall(G, call.args[1], call.args[2])
    /\ call.op = "check_cycles" =>
          /\ ~raised
          /\ deep <= Len(vertexList)
          /\ ret = Just(check_cycles(G))

C19_Witness ==
    /\ call.op = "find_shortest_path"
    /\ hasVert(G, call.args[1])
    /\ HasCycle(G)
    /\ \E v \in Vertex : v \in Succ(G, {v})
    /\ deep = 3
    /\ Len(vertexList) = 3
    /\ ~raised
    /\ ret # None
    /\ Len(ret.val) = 2

(***************************************************************************)
(* buildHeap, then delMin until the heap is empty                          *)
(***************************************************************************)
MaxBuildLen == 4

\* the lists a caller gives to buildHeap: any entries in any order, the
\* empty list and the lists of one entry included
BuildEntry == (0 .. MaxPrio) \X {"A", "B"}
BuildSeqs == UNION {[1 .. n -> BuildEntry] : n \in 0 .. MaxBuildLen}

\* "pq.buildHeap(alist)"; inserted is the caller's list after the call: the
\* heap takes the copy alist[:] and nothing writes to alist
DrainBuildHeap(alist) ==
    /\ pc = "idle"
    /\ LET h == buildHeap(H, alist) IN
       /\ heapList' = h.heapList
       /\ currentSize' = h.currentSize
    /\ inserted' = alist
    /\ call' = Call("buildHeap", <<alist>>)
    /\ pc' = "drain"
    /\ UNCHANGED <<searchVars, callerVars, queueVars, graphVars, ret,
                   raised, dijkstraVars, popped>>

NextBuild ==
    \/ pc = "idle" /\ \E alist \in BuildSeqs : DrainBuildHeap(alist)
    \/ DrainDelMin
    \/ DrainDone

\* one buildHeap on a fresh heap, then delMin until the heap is empty
SpecBuild == Init /\ [][NextBuild]_vars

\* C20: buildHeap(alist), for any list, the empty one and those of one
\* entry included, leaves the entries of alist as the live entries
\* (currentSize == len(alist)), the sentinel at index 0 and every parent
\* no greater than its children; alist itself is as it was, and delMin
\* until the heap is empty then gives the entries in non-decreasing
\* priority order.
C20_BuildHeap ==
    /\ call.op = "buildHeap" =>
          /\ At(H, 0) = Sentinel
          /\ currentSize = Len(call.args[1])
          /\ Len(heapList) = currentSize + 1
          /\ BagOfSeq(Tail(heapList)) = BagOfSeq(call.args[1])
          /\ \A i \in 2 .. currentSize : At(H, i \div 2)[1] <= At(H, i)[1]
          /\ inserted = call.args[1]
    /\ NonDecreasing(popped)
    /\ pc # "raised"
    /\ pc = "done" => BagOfSeq(popped) = BagOfSeq(inserted)

\* a list of four entries whose first, second and fourth entries go down
\* in priority, built into a heap and drained
C20_Witness ==
    /\ pc = "done"
    /\ Len(inserted) = 4
    /\ inserted[1][1] > inserted[2][1]
    /\ inserted[2][1] > inserted[4][1]
    /\ Len(popped) = 4

\* C21: after any sequence of addVertex and addConn calls no adjacency
\* list holds a destination twice, and every destination of every
\* adjacency list is a vertex of the graph, in vertexList and a key of
\* connections; so in a run of Dijkstra getConns of the vertex taken from
\* the queue gives a list, and every neighbour in it has an entry in dist.
C21_AdjacencyWellFormed ==
    /\ \A v \in DOMAIN connections :
          /\ NoDup(connections[v])
          /\ Range(connections[v]) \subseteq Range(vertexList)
          /\ Range(connections[v]) \subseteq DOMAIN connections
    /\ (call.op = "Dijkstra" /\ pc = "for") =>
          LET conns == getConns(G, current[2]) IN
          /\ ~conns.none
          /\ \A next_node \in Range(conns.val) : next_node \in DOMAIN dist

\* Dijkstra is going through the neighbours of a vertex that has a
\* self-loop and two more edges, in a graph of four edges
C21_Witness ==
    /\ call.op = "Dijkstra"
    /\ pc = "for"
    /\ nextIdx = 3
    /\ Len(connections[current[2]]) = 3
    /\ current[2] \in Range(connections[current[2]])
    /\ NumConns(G) = 4
====
